---- MODULE Spec2Model ----
(***************************************************************************)
(* A model of tools/fat/fat.c: the FAT12 extraction tool.  One run of      *)
(* main() is one behaviour: the arguments are checked, the image is        *)
(* opened, the boot sector, the FAT and the root directory are loaded, the *)
(* file is looked up, its cluster chain is followed (one action per loop   *)
(* iteration of readFile) and the bytes are displayed.                     *)
(*                                                                         *)
(* The image is the environment.  What the program loads from it (boot     *)
(* sector, FAT bytes, directory entries) is drawn from bounded sets by the *)
(* action that loads it; the content of every other byte of the image is   *)
(* the fixed function ImageByte.  A read of the medium may fail.           *)
(*                                                                         *)
(* Undefined behaviour (a cluster read that runs past the allocation, a    *)
(* FAT or directory read outside the loaded buffer, a division by zero,    *)
(* the display of bytes never written) is a nondeterministic choice: the   *)
(* run goes on with an indeterminate value, or the process is killed       *)
(* (action Fault) at any later point.                                      *)
(*                                                                         *)
(* A uint32_t is held as the signed integer with the same 32 bits, so      *)
(* 2^32 - 3 is -3 and all ones is -1: sums and products agree modulo 2^32. *)
(***************************************************************************)
EXTENDS Integers, Sequences, FiniteSets

\* ------------------------------------------------------------------ bounds
MaxBytesPerSector == 3
MaxSectorsPerCluster == 2
MaxSize == 3
MaxCluster == 4
\* readFile's loop is followed for at most MaxIter iterations (a chain with a
\* cycle and a cluster size of 0 bytes never leaves it).
MaxIter == 5

\* --------------------------------------------------------- program constants
EndOfChain == 4088          \* 0xFF8
BadCluster == 4087          \* 0xFF7
DirEntrySize == 32          \* sizeof(DirectoryEntry)
NameLen == 11
AttrDirectory == 16         \* 0x10
AttrVolumeLabel == 8        \* 0x08
Deleted == 229              \* 0xE5

Min(a, b) == IF a < b THEN a ELSE b

\* A byte of the buffer that was never written.
Uninit == -1

\* -------------------------------------------------------------- the image
\* The byte at byte offset p of the image, outside what is drawn below.
ImageByte(p) == (p * 37 + 11) % 256

\* What indeterminate memory may hold.
GarbageBytes == {0, 255}

NameHello == <<72, 69, 76, 76, 79, 32, 32, 32, 84, 88, 84>>
NameDeleted == <<229, 69, 76, 76, 79, 32, 32, 32, 84, 88, 84>>
NameOther == <<79, 84, 72, 69, 82, 32, 32, 32, 66, 73, 78>>
NameUnused == <<0, 0, 0, 0, 0, 0, 0, 0, 0, 0, 0>>

\* argv[2]
LookupNames == {NameHello, NameDeleted, NameOther}

Entry(name, attr, first, size) ==
    [Name |-> name, Attributes |-> attr, FirstClusterLow |-> first, Size |-> size]

RegularEntries == {Entry(NameHello, 32, f, s) : f \in {1, 2, 3}, s \in 0..MaxSize}

SpecialEntries ==
    { Entry(NameHello, 16, 2, 0), Entry(NameHello, 40, 0, 0),
      Entry(NameDeleted, 32, 2, 1), Entry(NameUnused, 0, 0, 0) }

\* The root directories of the image, by entry count.
RootDirs(n) ==
    CASE n = 0 -> {<<>>}
      [] n = 1 -> {<<e>> : e \in RegularEntries \cup SpecialEntries}
      [] OTHER -> {<<d, e>> : d \in {Entry(NameDeleted, 32, 3, 1), Entry(NameHello, 32, 3, 1)},
                              e \in {Entry(NameHello, 32, 2, 2), Entry(NameOther, 32, 2, 1)}}

BootSectors ==
    [BytesPerSector : 0..MaxBytesPerSector,
     SectorsPerCluster : 0..MaxSectorsPerCluster,
     ReservedSectors : {1},
     FatCount : {2},
     DirEntryCount : 0..2,
     SectorsPerFat : {0, 8}]

\* The FAT entries of the image: clusters 0 and 1 hold 0x234 and 0xAB1, the
\* clusters 2..MaxCluster are chained in order and the last one ends the chain.
LinearFat ==
    [c \in 0..MaxCluster |->
        CASE c = 0 -> 564
          [] c = 1 -> 2737
          [] c = MaxCluster -> 4095
          [] OTHER -> c + 1]

\* 2 -> 4 -> 3 -> end of chain
ScatteredFat == [LinearFat EXCEPT ![2] = 4, ![4] = 3, ![3] = 4088]

FatTables ==
    {LinearFat, ScatteredFat}
        \cup {[LinearFat EXCEPT ![k] = v] : k \in 2..MaxCluster, v \in {0, 1, 2, 4087, 4088}}

\* Byte i (from 0) of the FAT region: the entries packed two per three bytes,
\* zero (free clusters) after the last entry.
FatRegionByte(t, i) ==
    LET e(c) == IF c \in DOMAIN t THEN t[c] ELSE 0
        e0 == e(2 * (i \div 3))
        e1 == e(2 * (i \div 3) + 1)
    IN  CASE i % 3 = 0 -> e0 % 256
          [] i % 3 = 1 -> (e0 \div 256) + (e1 % 16) * 16
          [] OTHER -> e1 \div 16

VARIABLES
    pc,                 \* where main is
    argc, name,         \* the command line: argc and argv[2]
    g_BootSector, g_Fat, g_RootDirectory, g_RootDirectoryEnd,
    sectors,            \* readRootDirectory's sector count
    fileEntry,          \* index of the entry findFile returned, 0 for NULL
    buffer,             \* main's output buffer
    currentCluster, bytesRead,
    readFileResult,     \* "none", or what readFile returned
    exitCode, cause,    \* main's return value and the return statement taken
    displayed,          \* what the display loop wrote to standard output
    trace,              \* one record per iteration of readFile's loop
    ub, divByZero       \* undefined behaviour has happened

vars == <<pc, argc, name, g_BootSector, g_Fat, g_RootDirectory, g_RootDirectoryEnd,
          sectors, fileEntry, buffer, currentCluster, bytesRead, readFileResult,
          exitCode, cause, displayed, trace, ub, divByZero>>

NoBoot ==
    [BytesPerSector |-> 0, SectorsPerCluster |-> 0, ReservedSectors |-> 0,
     FatCount |-> 0, DirEntryCount |-> 0, SectorsPerFat |-> 0]

Init ==
    /\ pc = "args"
    /\ argc \in {2, 3}
    /\ name \in LookupNames
    /\ g_BootSector = NoBoot
    /\ g_Fat = <<>>
    /\ g_RootDirectory = <<>>
    /\ g_RootDirectoryEnd = 0
    /\ sectors = 0
    /\ fileEntry = 0
    /\ buffer = <<>>
    /\ currentCluster = 0
    /\ bytesRead = 0
    /\ readFileResult = "none"
    /\ exitCode = "none"
    /\ cause = "none"
    /\ displayed = <<>>
    /\ trace = <<>>
    /\ ub = FALSE
    /\ divByZero = FALSE


\* ------------------------------------------------------- the pure helpers

\* (Faulty variant: a lookup miss returns the file-read code.)
ExitCodeMerged(c) ==
    CASE c \in {"invalid_args", "cannot_open"} -> -1
      [] c = "boot_sector" -> -2
      [] c = "fat" -> -3
      [] c = "root_directory" -> -4
      [] c \in {"not_found", "directory", "volume_label", "first_cluster", "read_file"} -> -6
      [] OTHER -> 0

\* main's return statements, by the failure that takes them.
ExitCode(c) ==
    CASE c = "invalid_args" -> -1
      [] c = "cannot_open" -> -1
      [] c = "boot_sector" -> -2
      [] c = "fat" -> -3
      [] c = "root_directory" -> -4
      [] c = "not_found" -> -5
      [] c = "directory" -> -6
      [] c = "volume_label" -> -6
      [] c = "first_cluster" -> -6
      [] c = "read_file" -> -6
      [] OTHER -> 0

\* readSectors: fseek, then fread of count items of BytesPerSector bytes, which
\* returns 0 when either is 0.  io: the medium serves the request.
ReadSectorsOk(count, io) ==
    io /\ (g_BootSector.BytesPerSector = 0 => count = 0)

\* readSectors' seek offset, lba * BytesPerSector in 32 bits.
SeekPos(lba) == (lba * g_BootSector.BytesPerSector)

\* The bytes readSectors delivers for count sectors at lba.
SectorsFromDisk(lba, count) ==
    [i \in 1..(count * g_BootSector.BytesPerSector) |-> ImageByte(SeekPos(lba) + i - 1)]

\* readRootDirectory's sector count: size / bps, one more when size % bps > 0.
\* (Faulty variant: the partial last sector is dropped.)
RootDirSectorsFloor(size, bps) == size \div bps
RootDirSectors(size, bps) ==
    (size \div bps + (IF size % bps > 0 THEN 1 ELSE 0))

\* readRootDirectory's lba: the sector after the reserved sectors and the FATs.
RootDirLba ==
    (g_BootSector.ReservedSectors
        + g_BootSector.SectorsPerFat * g_BootSector.FatCount)

\* memcmp(a, b, n) == 0
MemcmpEq(a, b, n) == \A i \in 1..n : a[i] = b[i]

\* findFile: the index of the first of the count entries whose name equals nm
\* in all 11 bytes, 0 (NULL) when there is none.
FindFile(nm, dir, count) ==
    LET hits == {i \in 1..count : MemcmpEq(nm, dir[i].Name, NameLen)}
    IN  IF hits = {} THEN 0 ELSE CHOOSE i \in hits : \A j \in hits : i <= j

\* attr & mask, for a mask of one bit
HasBit(attr, mask) == (attr \div mask) % 2 = 1

\* readFile's lba of a cluster: the int product converted to 32 bits unsigned.
\* (Faulty variant: clusters numbered from 1.)
ClusterLbaFromOne(cluster) ==
    (g_RootDirectoryEnd + (cluster - 1) * g_BootSector.SectorsPerCluster)
ClusterLba(cluster) ==
    (g_RootDirectoryEnd + (cluster - 2) * g_BootSector.SectorsPerCluster)

BytesThisCluster == g_BootSector.SectorsPerCluster * g_BootSector.BytesPerSector

\* readFile's bytesToRead
BytesToRead(size, done) == Min(BytesThisCluster, size - done)

\* (Faulty variant: the loop runs until the chain ends.)
LoopConditionChainOnly(cluster, done, size) == cluster < EndOfChain

\* readFile's loop condition
LoopCondition(cluster, done, size) == cluster < EndOfChain /\ done < size

\* readSectors into outputBuffer + off: the bytes that land inside the
\* allocation.
WriteAt(buf, off, data) ==
    [i \in 1..Len(buf) |->
        IF off < i /\ i <= off + Len(data) THEN data[i - off] ELSE buf[i]]

FatIndex(cluster) == (cluster * 3) \div 2

\* The values *(uint16_t*)(g_Fat + idx) may have: the two bytes, little-endian;
\* a byte outside the loaded FAT is indeterminate.
FatValues(fat, idx) ==
    LET byteAt(i) == IF i < Len(fat) THEN {fat[i + 1]} ELSE GarbageBytes
    IN  {lo + 256 * hi : lo \in byteAt(idx), hi \in byteAt(idx + 1)}

FatInBounds(fat, idx) == idx + 1 < Len(fat)

\* readFile's successor: fatValue & 0x0FFF for an even cluster, fatValue >> 4
\* for an odd one.
\* (Faulty variant: the even and the odd case exchanged.)
NextClusterSwapped(cluster, fatValue) ==
    IF cluster % 2 = 0 THEN fatValue \div 16 ELSE fatValue % 4096
NextCluster(cluster, fatValue) ==
    IF cluster % 2 = 0 THEN fatValue % 4096 ELSE fatValue \div 16

\* readFile's bad-cluster test
\* (Faulty variant: no bad-cluster test.)
IsBadClusterOff(cluster) == FALSE
IsBadCluster(cluster) == cluster = BadCluster

\* The display loop: a printable byte as it is, any other as <xx>.
IsPrint(b) == 32 <= b /\ b <= 126
HexDigit(d) == IF d < 10 THEN 48 + d ELSE 87 + d
Render(b) == IF IsPrint(b) THEN <<b>> ELSE <<60, HexDigit(b \div 16), HexDigit(b % 16), 62>>

RECURSIVE RenderAll(_)
RenderAll(bytes) ==
    IF bytes = <<>> THEN <<>> ELSE Render(Head(bytes)) \o RenderAll(Tail(bytes))


\* ------------------------------------------------------------ the actions

\* return c from main
Exit(c) ==
    /\ pc' = "exited"
    /\ exitCode' = ExitCode(c)
    /\ cause' = c

\* main: the argument count
CheckArgs ==
    /\ pc = "args"
    /\ IF argc < 3
         THEN Exit("invalid_args")
         ELSE pc' = "open" /\ UNCHANGED <<exitCode, cause>>
    /\ UNCHANGED <<argc, name, g_BootSector, g_Fat, g_RootDirectory, g_RootDirectoryEnd,
                   sectors, fileEntry, buffer, currentCluster, bytesRead, readFileResult,
                   displayed, trace, ub, divByZero>>

\* main: fopen
OpenDisk ==
    /\ pc = "open"
    /\ \E opened \in BOOLEAN :
        IF ~opened
          THEN Exit("cannot_open")
          ELSE pc' = "boot" /\ UNCHANGED <<exitCode, cause>>
    /\ UNCHANGED <<argc, name, g_BootSector, g_Fat, g_RootDirectory, g_RootDirectoryEnd,
                   sectors, fileEntry, buffer, currentCluster, bytesRead, readFileResult,
                   displayed, trace, ub, divByZero>>

\* main: readBootSector
ReadBootSector ==
    /\ pc = "boot"
    /\ \E io \in BOOLEAN, bs \in BootSectors :
        IF ~io
          THEN Exit("boot_sector") /\ UNCHANGED g_BootSector
          ELSE /\ g_BootSector' = bs
               /\ pc' = "fat"
               /\ UNCHANGED <<exitCode, cause>>
    /\ UNCHANGED <<argc, name, g_Fat, g_RootDirectory, g_RootDirectoryEnd,
                   sectors, fileEntry, buffer, currentCluster, bytesRead, readFileResult,
                   displayed, trace, ub, divByZero>>

\* main: readFat
ReadFat ==
    /\ pc = "fat"
    /\ \E io \in BOOLEAN, t \in FatTables :
        IF ~ReadSectorsOk(g_BootSector.SectorsPerFat, io)
          THEN Exit("fat") /\ UNCHANGED g_Fat
          ELSE /\ g_Fat' = [i \in 1..(g_BootSector.SectorsPerFat * g_BootSector.BytesPerSector)
                                |-> FatRegionByte(t, i - 1)]
               /\ pc' = "root"
               /\ UNCHANGED <<exitCode, cause>>
    /\ UNCHANGED <<argc, name, g_BootSector, g_RootDirectory, g_RootDirectoryEnd,
                   sectors, fileEntry, buffer, currentCluster, bytesRead, readFileResult,
                   displayed, trace, ub, divByZero>>

\* The sector counts readRootDirectory may compute.  With BytesPerSector = 0
\* the division is undefined: where it does not trap, the quotient is 0 or all
\* ones (-1) and the remainder is the dividend.
SectorCounts(size, bps) ==
    IF bps # 0
      THEN {RootDirSectors(size, bps)}
      ELSE {(q + (IF size > 0 THEN 1 ELSE 0)) : q \in {0, -1}}

\* main: readRootDirectory
ReadRootDirectory ==
    /\ pc = "root"
    /\ LET lba == RootDirLba
           size == DirEntrySize * g_BootSector.DirEntryCount
       IN  \E n \in SectorCounts(size, g_BootSector.BytesPerSector), io \in BOOLEAN,
              dir \in RootDirs(g_BootSector.DirEntryCount) :
             /\ sectors' = n
             /\ g_RootDirectoryEnd' = (lba + n)
             /\ divByZero' = (g_BootSector.BytesPerSector = 0)
             /\ ub' = (g_BootSector.BytesPerSector = 0)
             /\ IF ~ReadSectorsOk(n, io)
                  THEN Exit("root_directory") /\ UNCHANGED g_RootDirectory
                  ELSE /\ g_RootDirectory' =
                            IF n * g_BootSector.BytesPerSector >= size THEN dir ELSE <<>>
                       /\ pc' = "find"
                       /\ UNCHANGED <<exitCode, cause>>
    /\ UNCHANGED <<argc, name, g_BootSector, g_Fat, fileEntry, buffer, currentCluster,
                   bytesRead, readFileResult, displayed, trace>>

\* main: findFile.  Entries outside the loaded directory are indeterminate
\* memory, taken not to match.
FindFileStep ==
    /\ pc = "find"
    /\ LET loaded == Min(g_BootSector.DirEntryCount, Len(g_RootDirectory))
           found == FindFile(name, g_RootDirectory, loaded)
       IN  /\ fileEntry' = found
           /\ ub' = (ub \/ loaded < g_BootSector.DirEntryCount)
           /\ IF found = 0
                THEN Exit("not_found")
                ELSE pc' = "check" /\ UNCHANGED <<exitCode, cause>>
    /\ UNCHANGED <<argc, name, g_BootSector, g_Fat, g_RootDirectory, g_RootDirectoryEnd,
                   sectors, buffer, currentCluster, bytesRead, readFileResult,
                   displayed, trace, divByZero>>

\* main: the checks of the entry found, and the allocation of the buffer
CheckEntry ==
    /\ pc = "check"
    /\ LET e == g_RootDirectory[fileEntry]
       IN  CASE HasBit(e.Attributes, AttrDirectory) ->
                    Exit("directory") /\ UNCHANGED buffer
             [] ~HasBit(e.Attributes, AttrDirectory) /\ HasBit(e.Attributes, AttrVolumeLabel) ->
                    Exit("volume_label") /\ UNCHANGED buffer
             [] OTHER ->
                    IF e.Size = 0
                      THEN Exit("empty") /\ UNCHANGED buffer
                      ELSE IF e.FirstClusterLow < 2
                        THEN Exit("first_cluster") /\ UNCHANGED buffer
                        ELSE /\ buffer' = [i \in 1..((e.Size + g_BootSector.BytesPerSector))
                                              |-> Uninit]
                             /\ pc' = "readFile"
                             /\ UNCHANGED <<exitCode, cause>>
    /\ UNCHANGED <<argc, name, g_BootSector, g_Fat, g_RootDirectory, g_RootDirectoryEnd,
                   sectors, fileEntry, currentCluster, bytesRead, readFileResult,
                   displayed, trace, ub, divByZero>>

\* readFile, up to its loop
ReadFileEnter ==
    /\ pc = "readFile"
    /\ LET e == g_RootDirectory[fileEntry]
       IN  IF e.Size = 0
             THEN /\ readFileResult' = "true"
                  /\ pc' = "returned"
                  /\ UNCHANGED <<currentCluster, bytesRead>>
             ELSE /\ currentCluster' = e.FirstClusterLow
                  /\ bytesRead' = 0
                  /\ pc' = "loop"
                  /\ UNCHANGED readFileResult
    /\ UNCHANGED <<argc, name, g_BootSector, g_Fat, g_RootDirectory, g_RootDirectoryEnd,
                   sectors, fileEntry, buffer, exitCode, cause, displayed, trace, ub, divByZero>>

\* readFile: one iteration of the loop
ReadCluster ==
    /\ pc = "loop"
    /\ Len(trace) < MaxIter
    /\ LET e == g_RootDirectory[fileEntry]
           lba == ClusterLba(currentCluster)
           toRead == BytesToRead(e.Size, bytesRead)
           data == SectorsFromDisk(lba, g_BootSector.SectorsPerCluster)
           idx == FatIndex(currentCluster)
           step == [cluster |-> currentCluster, lba |-> lba, offset |-> bytesRead,
                    end |-> bytesRead + Len(data), fatValue |-> -1, next |-> -1]
       IN  /\ LoopCondition(currentCluster, bytesRead, e.Size)
           /\ \E io \in BOOLEAN :
                IF ~ReadSectorsOk(g_BootSector.SectorsPerCluster, io)
                  THEN /\ readFileResult' = "false"
                       /\ pc' = "returned"
                       /\ trace' = Append(trace, step)
                       /\ UNCHANGED <<buffer, bytesRead, currentCluster, ub>>
                  ELSE \E fatValue \in FatValues(g_Fat, idx) :
                         LET next == NextCluster(currentCluster, fatValue)
                         IN  /\ buffer' = WriteAt(buffer, bytesRead, data)
                             /\ bytesRead' = (bytesRead + toRead)
                             /\ currentCluster' = next
                             /\ trace' = Append(trace, [step EXCEPT !.fatValue = fatValue,
                                                                     !.next = next])
                             /\ ub' = (ub \/ bytesRead + Len(data) > Len(buffer)
                                          \/ ~FatInBounds(g_Fat, idx))
                             /\ IF IsBadCluster(next)
                                  THEN readFileResult' = "false" /\ pc' = "returned"
                                  ELSE pc' = "loop" /\ UNCHANGED readFileResult
    /\ UNCHANGED <<argc, name, g_BootSector, g_Fat, g_RootDirectory, g_RootDirectoryEnd,
                   sectors, fileEntry, exitCode, cause, displayed, divByZero>>

\* readFile: the loop ends and readFile returns true
ReadFileDone ==
    /\ pc = "loop"
    /\ ~LoopCondition(currentCluster, bytesRead, g_RootDirectory[fileEntry].Size)
    /\ readFileResult' = "true"
    /\ pc' = "returned"
    /\ UNCHANGED <<argc, name, g_BootSector, g_Fat, g_RootDirectory, g_RootDirectoryEnd,
                   sectors, fileEntry, buffer, currentCluster, bytesRead, exitCode, cause,
                   displayed, trace, ub, divByZero>>

\* main: readFile returned false
ReadFileFailed ==
    /\ pc = "returned"
    /\ readFileResult = "false"
    /\ Exit("read_file")
    /\ UNCHANGED <<argc, name, g_BootSector, g_Fat, g_RootDirectory, g_RootDirectoryEnd,
                   sectors, fileEntry, buffer, currentCluster, bytesRead, readFileResult,
                   displayed, trace, ub, divByZero>>

\* main: readFile returned true; the first Size bytes of the buffer are
\* displayed.  A byte never written is indeterminate.
Display ==
    /\ pc = "returned"
    /\ readFileResult = "true"
    /\ LET size == g_RootDirectory[fileEntry].Size
       IN  \E fill \in [1..size -> GarbageBytes] :
             /\ displayed' = RenderAll([i \in 1..size |->
                                 IF buffer[i] = Uninit THEN fill[i] ELSE buffer[i]]) \o <<10>>
             /\ ub' = (ub \/ \E i \in 1..size : buffer[i] = Uninit)
    /\ Exit("success")
    /\ UNCHANGED <<argc, name, g_BootSector, g_Fat, g_RootDirectory, g_RootDirectoryEnd,
                   sectors, fileEntry, buffer, currentCluster, bytesRead, readFileResult,
                   trace, divByZero>>

\* After undefined behaviour the process may be killed at any point.
Fault ==
    /\ ub
    /\ pc \notin {"exited", "killed"}
    /\ pc' = "killed"
    /\ UNCHANGED <<argc, name, g_BootSector, g_Fat, g_RootDirectory, g_RootDirectoryEnd,
                   sectors, fileEntry, buffer, currentCluster, bytesRead, readFileResult,
                   exitCode, cause, displayed, trace, ub, divByZero>>

Next ==
    \/ CheckArgs
    \/ OpenDisk
    \/ ReadBootSector
    \/ ReadFat
    \/ ReadRootDirectory
    \/ FindFileStep
    \/ CheckEntry
    \/ ReadFileEnter
    \/ ReadCluster
    \/ ReadFileDone
    \/ ReadFileFailed
    \/ Display
    \/ Fault

Spec == Init /\ [][Next]_vars


\* ================================================================ properties

Target == g_RootDirectory[fileEntry]
BytesPerSector == g_BootSector.BytesPerSector
SectorsPerCluster == g_BootSector.SectorsPerCluster

\* readFile has returned (and the process was not killed).
ReadFileReturned == pc \in {"returned", "exited"} /\ readFileResult # "none"

\* FAT12 entry n of a byte buffer, by its three 4-bit digits: the buffer is a
\* little-endian string of nibbles and entry n is nibbles 3n, 3n+1, 3n+2.
Nibble(fat, k) ==
    IF k % 2 = 0 THEN fat[k \div 2 + 1] % 16 ELSE fat[k \div 2 + 1] \div 16

Fat12Entry(fat, n) ==
    Nibble(fat, 3 * n) + 16 * Nibble(fat, 3 * n + 1) + 256 * Nibble(fat, 3 * n + 2)

EntryLoaded(fat, n) == (3 * n + 2) \div 2 < Len(fat)

\* The number of data clusters (each in 2..0xFF6, with its entry in the FAT)
\* from c up to an end-of-chain value; -1 when the chain is not of that form.
RECURSIVE ChainLength(_, _, _)
ChainLength(fat, c, fuel) ==
    IF c >= 4088 THEN 0
    ELSE IF fuel = 0 \/ c < 2 \/ c > 4086 \/ ~EntryLoaded(fat, c) THEN -1
    ELSE LET rest == ChainLength(fat, Fat12Entry(fat, c), fuel - 1)
         IN  IF rest < 0 THEN -1 ELSE rest + 1

\* The k-th cluster (from 0) of the chain from c.
RECURSIVE ChainCluster(_, _, _)
ChainCluster(fat, c, k) ==
    IF k = 0 THEN c ELSE ChainCluster(fat, Fat12Entry(fat, c), k - 1)

CeilDiv(a, b) == (a + b - 1) \div b

\* The data-region start of the layout: reserved sectors, the FAT copies, the
\* root directory rounded up to whole sectors.
DataRegionStart ==
    g_BootSector.ReservedSectors + g_BootSector.SectorsPerFat * g_BootSector.FatCount
        + CeilDiv(g_BootSector.DirEntryCount * 32, BytesPerSector)

\* Byte i (from 0) of the file: byte i % clusterBytes of the cluster i \div
\* clusterBytes of the chain, in the data region of the image.
FileByte(i) ==
    LET clusterBytes == SectorsPerCluster * BytesPerSector
        c == ChainCluster(g_Fat, Target.FirstClusterLow, i \div clusterBytes)
    IN  ImageByte((DataRegionStart + (c - 2) * SectorsPerCluster) * BytesPerSector
                    + (i % clusterBytes))

WellFormedFile ==
    /\ fileEntry # 0
    /\ BytesPerSector >= 1
    /\ SectorsPerCluster >= 1
    /\ Target.Size > 0
    /\ ChainLength(g_Fat, Target.FirstClusterLow, MaxCluster + 1)
            >= CeilDiv(Target.Size, SectorsPerCluster * BytesPerSector)

\* C1: when the geometry is valid, Size > 0 and the FAT chain from
\* FirstClusterLow has at least ceil(Size / clusterBytes) data clusters and then
\* an end-of-chain value, a readFile that returned true has left in
\* output[0 .. Size-1] the chain's clusters' data, in chain order, cut at Size.
C1_FileContents ==
    (ReadFileReturned /\ readFileResult = "true" /\ WellFormedFile)
        => \A i \in 0..(Target.Size - 1) : buffer[i + 1] = FileByte(i)

\* A file of 3 bytes in two clusters of 2 bytes has been read.
C1_Witness ==
    /\ ReadFileReturned /\ readFileResult = "true" /\ WellFormedFile
    /\ Target.Size = 3
    /\ SectorsPerCluster * BytesPerSector = 2
    /\ Len(trace) = 2
    /\ trace[2].cluster # trace[1].cluster + 1

\* C2: the successor readFile takes for cluster N is the 12-bit FAT12 entry N
\* of the FAT bytes (0x234 and 0xAB1 for entries 0 and 1 of 34 12 AB), and is
\* in 0..0xFFF.
C2_Fat12Successor ==
    /\ \A k \in 1..Len(trace) :
          trace[k].next # -1 =>
            /\ trace[k].next \in 0..4095
            /\ EntryLoaded(g_Fat, trace[k].cluster)
                  => trace[k].next = Fat12Entry(g_Fat, trace[k].cluster)
            /\ (Len(g_Fat) >= 3 /\ SubSeq(g_Fat, 1, 3) = <<52, 18, 171>>)
                  => /\ trace[k].cluster = 0 => trace[k].next = 564
                     /\ trace[k].cluster = 1 => trace[k].next = 2737
    /\ (pc = "loop" /\ trace # <<>>) => currentCluster = trace[Len(trace)].next

\* The successors of an odd and of an even cluster have been taken, the odd
\* one from the bytes 12 AB.
C2_Witness ==
    /\ \E k \in 1..Len(trace) : trace[k].cluster = 1 /\ trace[k].next = 2737
    /\ \E k \in 1..Len(trace) : trace[k].cluster = 2 /\ trace[k].next = 1

BadClusterFetched == \E k \in 1..Len(trace) : trace[k].next = 4087

\* C4: whenever the successor fetched in readFile is 0xFF7, readFile returns
\* false, main's exit code is the file-read failure code, and nothing of the
\* buffer is written to standard output.
C4_BadClusterAborts ==
    BadClusterFetched =>
        /\ readFileResult = "false"
        /\ pc \in {"returned", "exited", "killed"}
        /\ pc = "exited" => exitCode = -6 /\ cause = "read_file"
        /\ displayed = <<>>

\* main has exited after a 0xFF7 that followed a cluster already read.
C4_Witness ==
    /\ BadClusterFetched
    /\ pc = "exited"
    /\ Len(trace) >= 2
    /\ bytesRead > 0


\* The geometry is valid, every cluster read was served, every FAT entry read
\* is in the loaded FAT and every cluster read ended inside the buffer: nothing
\* indeterminate has entered the run.
CleanRead ==
    /\ fileEntry # 0
    /\ BytesPerSector >= 1
    /\ SectorsPerCluster >= 1
    /\ \A k \in 1..Len(trace) :
          /\ trace[k].next # -1
          /\ EntryLoaded(g_Fat, trace[k].cluster)
          /\ trace[k].end <= Len(buffer)

\* The loop of readFile ended on an end-of-chain value before Size bytes.
Truncated ==
    /\ ReadFileReturned /\ readFileResult = "true"
    /\ CleanRead
    /\ trace # <<>>
    /\ currentCluster >= 4088
    /\ bytesRead < Target.Size

\* C3: a chain that ends before Size bytes were produced is surfaced: the
\* outcome (readFile's result, main's exit code) differs from that of a read
\* of all Size bytes, and main displays no byte beyond those produced.
\* (Stated for reads in which nothing indeterminate is involved.)
C3_TruncationSurfaced ==
    Truncated =>
        /\ pc = "exited" => <<readFileResult, exitCode>> # <<"true", 0>>
        /\ pc = "exited" =>
              displayed \in {<<>>, RenderAll(SubSeq(buffer, 1, bytesRead)) \o <<10>>}

\* C5: in every iteration of readFile's loop the cluster whose sectors are read
\* is >= 2, and its LBA is dataRegionStart + (cluster - 2) * sectorsPerCluster,
\* not below the data-region start.  (Stated for reads in which nothing
\* indeterminate is involved.)
C5_ClusterAtLeastTwo ==
    CleanRead =>
        \A k \in 1..Len(trace) :
            /\ trace[k].cluster >= 2
            /\ trace[k].lba >= g_RootDirectoryEnd

\* The failure causes the exit codes are to tell apart; a subdirectory and a
\* volume label are the one cause not-a-regular-file.
Causes ==
    {"invalid_args", "cannot_open", "boot_sector", "fat", "root_directory",
     "not_found", "directory", "volume_label", "read_file"}

SameCause(c, d) ==
    c = d \/ {c, d} = {"directory", "volume_label"}

\* C6 as stated: main's exit code for a failure cause is not 0 and is the code
\* of no other cause.
C6_AllCodesDistinct ==
    (pc = "exited" /\ cause \in Causes) =>
        /\ exitCode # 0
        /\ \A c \in Causes : ExitCode(c) = exitCode => SameCause(c, cause)

\* The stages the exit codes do tell apart.
Stage(c) ==
    CASE c \in {"invalid_args", "cannot_open"} -> "open"
      [] c \in {"directory", "volume_label", "read_file"} -> "read"
      [] OTHER -> c

\* C6 (amended): main's exit code for a failure cause is negative, and two
\* causes have the same code exactly when they are invalid arguments and
\* unreadable image (-1), or not-a-regular-file and file-read failure (-6).
C6_CodesDistinctByStage ==
    (pc = "exited" /\ cause \in Causes) =>
        /\ exitCode < 0
        /\ \A c \in Causes : ExitCode(c) = exitCode <=> Stage(c) = Stage(cause)
        /\ cause \in {"invalid_args", "cannot_open"} => exitCode = -1
        /\ Stage(cause) = "read" => exitCode = -6

\* main has exited because the entry is a volume label.
C6_Witness ==
    pc = "exited" /\ cause = "volume_label" /\ exitCode = -6

\* C7: findFile never returns an entry whose first name byte is 0xE5 or 0x00;
\* otherwise it returns the lowest-index entry whose 11 name bytes equal the
\* lookup name, or NULL.
C7_DeletedNeverMatched ==
    pc \in {"check", "readFile", "loop", "returned"} =>
        /\ fileEntry # 0 => Target.Name[1] \notin {Deleted, 0}
        /\ fileEntry # 0 =>
              /\ Target.Name = name
              /\ \A j \in 1..(fileEntry - 1) : g_RootDirectory[j].Name # name

\* readRootDirectory has run.
RootDirectoryRead ==
    \/ pc \in {"find", "check", "readFile", "loop", "returned"}
    \/ pc = "exited" /\ cause \notin {"invalid_args", "cannot_open", "boot_sector", "fat"}

\* C8: with BytesPerSector >= 1, readRootDirectory's sector count is the
\* ceiling of DirEntryCount * 32 / BytesPerSector, and g_RootDirectoryEnd is
\* ReservedSectors + SectorsPerFat * FatCount + sectors.
C8_RootDirectoryCeiling ==
    (RootDirectoryRead /\ BytesPerSector >= 1) =>
        LET size == g_BootSector.DirEntryCount * 32
            start == g_BootSector.ReservedSectors
                        + g_BootSector.SectorsPerFat * g_BootSector.FatCount
        IN  /\ sectors * BytesPerSector >= size
            /\ sectors * BytesPerSector > size => size % BytesPerSector # 0
            /\ sectors > 0 => (sectors - 1) * BytesPerSector < size
            /\ g_RootDirectoryEnd = start + sectors
            /\ g_RootDirectoryEnd >= start

\* A directory of one entry in sectors of 3 bytes: 11 sectors, the last partial.
C8_Witness ==
    /\ pc = "find"
    /\ BytesPerSector = 3
    /\ g_BootSector.DirEntryCount = 1
    /\ sectors = 11
    /\ g_RootDirectoryEnd = 28

\* C9: a boot sector with BytesPerSector = 0 or SectorsPerCluster = 0 is
\* rejected before the arithmetic that depends on it: nothing is divided by a
\* BytesPerSector of 0, and no chain is followed with clusters of 0 bytes.
C9_InvalidGeometryRejected ==
    /\ ~divByZero
    /\ pc = "loop" => SectorsPerCluster * BytesPerSector # 0

\* C10: with SectorsPerCluster >= 1, BytesPerSector >= 1 and Size > 0, every
\* cluster read of readFile ends inside the Size + BytesPerSector bytes main
\* allocated.  (Stated for the reads the medium served, of clusters whose FAT
\* entry is loaded.)
C10_ReadInsideBuffer ==
    (fileEntry # 0 /\ SectorsPerCluster >= 1 /\ BytesPerSector >= 1) =>
        \A k \in 1..Len(trace) :
            (trace[k].next # -1 /\ EntryLoaded(g_Fat, trace[k].cluster)) =>
                /\ trace[k].end = trace[k].offset + SectorsPerCluster * BytesPerSector
                /\ trace[k].end <= Target.Size + BytesPerSector
                /\ trace[k].end <= Len(buffer)

\* readFile's loop has been entered with a valid geometry.
InLoopValid ==
    /\ fileEntry # 0
    /\ pc \in {"loop", "returned", "exited"}
    /\ readFileResult # "none" \/ pc = "loop"
    /\ BytesPerSector >= 1
    /\ SectorsPerCluster >= 1

\* C11: for every FAT content (cycles included) and every valid geometry,
\* readFile issues at most ceil(Size / (SectorsPerCluster * BytesPerSector))
\* cluster reads and then leaves the loop, and bytesRead <= Size throughout:
\* while the loop condition holds fewer reads than that have been issued (and
\* the next iteration is not held back by MaxIter).
C11_BoundedClusterReads ==
    InLoopValid =>
        LET most == CeilDiv(Target.Size, SectorsPerCluster * BytesPerSector)
        IN  /\ Len(trace) <= most
            /\ bytesRead <= Target.Size
            /\ bytesRead = Min(Len(trace) * SectorsPerCluster * BytesPerSector, Target.Size)
                  \/ (trace # <<>> /\ trace[Len(trace)].next = -1)
            /\ (pc = "loop" /\ LoopCondition(currentCluster, bytesRead, Target.Size))
                  => Len(trace) < most /\ Len(trace) < MaxIter

\* readFile has returned true after reading the one cluster of a cyclic chain
\* three times, once per byte of the file.
C11_Witness ==
    /\ InLoopValid
    /\ pc = "returned" /\ readFileResult = "true"
    /\ Target.Size = 3
    /\ Len(trace) = 3
    /\ \A k \in 1..3 : trace[k].cluster = 2 /\ trace[k].next = 2

====
